---------------------------- MODULE Spec2Model ----------------------------
(***************************************************************************)
(* Model of crawl-ref/source/species.cc: the species-level equipment and   *)
(* mutation-schedule queries, and the species-change transition            *)
(* change_species_to, taken statement by statement.                        *)
(*                                                                         *)
(* The per-species data table (species-data.h), the enums and the callees  *)
(* perma_mutate, species_apt_factor, roll_demonspawn_mutations,            *)
(* you_can_wear and fixup_skills live in other files of the game; they are *)
(* represented by small stand-ins, each marked below.                      *)
(***************************************************************************)
EXTENDS Integers, Sequences, FiniteSets, TLC

(***************************************************************************)
(* Bounds of the model.                                                    *)
(***************************************************************************)
\* highest experience level a starting player state has
MaxXL == 3
\* highest acquired (non-innate) level of one mutation in a starting state
MaxAcquired == 2
\* skill points needed for the top skill level at aptitude 0
MaxPoints == 3
\* most equipment slots filled in a starting state
MaxWorn == 2
\* highest mut_level asked of species_mutation_level
MaxMutLevel == 3

(***************************************************************************)
(* Enums (species-type.h, equipment-type.h, mutation-type.h, skill-type.h) *)
(***************************************************************************)
Species == {"SP_HUMAN", "SP_OCTOPODE", "SP_DEMONSPAWN", "SP_FELID",
            "SP_TROLL", "SP_RED_DRACONIAN"}

Mutations == {"MUT_CLAWS", "MUT_SHAGGY_FUR", "MUT_HEAT_RESISTANCE"}

Skills == {"SK_FIGHTING", "SK_SPELLCASTING"}

\* equipment_type in enum order, EQ_FIRST_EQUIP .. NUM_EQUIP - 1
EquipOrder == <<"EQ_WEAPON", "EQ_CLOAK", "EQ_HELMET", "EQ_GLOVES", "EQ_BOOTS",
                "EQ_SHIELD", "EQ_BODY_ARMOUR",
                "EQ_LEFT_RING", "EQ_RIGHT_RING", "EQ_AMULET",
                "EQ_RING_ONE", "EQ_RING_TWO", "EQ_RING_THREE", "EQ_RING_FOUR",
                "EQ_RING_FIVE", "EQ_RING_SIX", "EQ_RING_SEVEN", "EQ_RING_EIGHT",
                "EQ_RING_AMULET">>

EquipSlots == {EquipOrder[k] : k \in 1..Len(EquipOrder)}

\* the categories that are equipment_type values but no slot
EquipCategories == {"EQ_STAFF", "EQ_RINGS", "EQ_RINGS_PLUS", "EQ_ALL_ARMOUR"}

EquipTypes == EquipSlots \cup EquipCategories

\* position of a slot in the enum
EqIndex(eq) == CHOOSE k \in 1..Len(EquipOrder) : EquipOrder[k] = eq

EQ_FIRST_JEWELLERY == EqIndex("EQ_LEFT_RING")

EQ_LAST_JEWELLERY == EqIndex("EQ_RING_AMULET")

(***************************************************************************)
(* species_data: the part of each species_def the functions below read.    *)
(* level_up_mutations is listed in xp_level order, as the table keeps it;  *)
(* the levels are scaled down to the model's experience levels.            *)
(***************************************************************************)
LUM(mut, mut_level, xp_level) ==
    [mut |-> mut, mut_level |-> mut_level, xp_level |-> xp_level]

species_data ==
    [s \in Species |->
       CASE s = "SP_HUMAN" ->
              [draconian |-> FALSE, level_up_mutations |-> <<>>]
         [] s = "SP_OCTOPODE" ->
              [draconian |-> FALSE, level_up_mutations |-> <<>>]
         [] s = "SP_DEMONSPAWN" ->
              [draconian |-> FALSE, level_up_mutations |-> <<>>]
         [] s = "SP_FELID" ->
              [draconian |-> FALSE,
               level_up_mutations |->
                 << LUM("MUT_SHAGGY_FUR", 1, 1), LUM("MUT_CLAWS", 1, 1),
                    LUM("MUT_SHAGGY_FUR", 1, 2), LUM("MUT_SHAGGY_FUR", 1, 4) >>]
         [] s = "SP_TROLL" ->
              [draconian |-> FALSE,
               level_up_mutations |->
                 << LUM("MUT_CLAWS", 3, 1), LUM("MUT_SHAGGY_FUR", 1, 1) >>]
         [] s = "SP_RED_DRACONIAN" ->
              [draconian |-> TRUE,
               level_up_mutations |->
                 << LUM("MUT_HEAT_RESISTANCE", 1, 2), LUM("MUT_CLAWS", 1, 3),
                    LUM("MUT_HEAT_RESISTANCE", 2, 5) >>]]

get_species_def(species) == species_data[species]

species_is_draconian(species) == get_species_def(species).draconian

(***************************************************************************)
(* Equipment queries.                                                      *)
(***************************************************************************)
species_arm_count(species) == IF species = "SP_OCTOPODE" THEN 8 ELSE 2

\* species_bans_eq with EQ_RING_EIGHT left out of the numbered-ring cases
species_bans_eq_ring_eight_unhandled(species, eq) ==
    LET arms == species_arm_count(species) IN
    CASE eq \in {"EQ_LEFT_RING", "EQ_RIGHT_RING"} -> arms > 2
      [] eq \in {"EQ_RING_ONE", "EQ_RING_TWO", "EQ_RING_THREE", "EQ_RING_FOUR",
                 "EQ_RING_FIVE", "EQ_RING_SIX", "EQ_RING_SEVEN"} -> arms <= 2
      [] eq \in {"EQ_AMULET", "EQ_RING_AMULET", "EQ_WEAPON", "EQ_STAFF",
                 "EQ_RINGS", "EQ_RINGS_PLUS", "EQ_ALL_ARMOUR"} -> FALSE
      [] OTHER ->
           IF species = "SP_OCTOPODE" /\ eq # "EQ_HELMET" /\ eq # "EQ_SHIELD"
           THEN TRUE
           ELSE IF species_is_draconian(species) /\ eq = "EQ_BODY_ARMOUR"
           THEN TRUE
           ELSE FALSE

species_bans_eq(species, eq) ==
    LET arms == species_arm_count(species) IN
    CASE eq \in {"EQ_LEFT_RING", "EQ_RIGHT_RING"} -> arms > 2
      [] eq \in {"EQ_RING_ONE", "EQ_RING_TWO", "EQ_RING_THREE", "EQ_RING_FOUR",
                 "EQ_RING_FIVE", "EQ_RING_SIX", "EQ_RING_SEVEN",
                 "EQ_RING_EIGHT"} -> arms <= 2
      [] eq \in {"EQ_AMULET", "EQ_RING_AMULET", "EQ_WEAPON", "EQ_STAFF",
                 "EQ_RINGS", "EQ_RINGS_PLUS", "EQ_ALL_ARMOUR"} -> FALSE
      [] OTHER ->
           IF species = "SP_OCTOPODE" /\ eq # "EQ_HELMET" /\ eq # "EQ_SHIELD"
           THEN TRUE
           ELSE IF species_is_draconian(species) /\ eq = "EQ_BODY_ARMOUR"
           THEN TRUE
           ELSE FALSE

\* species_sacrificial_arm without the 8-armed case
species_sacrificial_arm_always_left(species) == "EQ_LEFT_RING"

species_sacrificial_arm(species) ==
    IF species_arm_count(species) = 2 THEN "EQ_LEFT_RING" ELSE "EQ_RING_EIGHT"

\* the loop of species_ring_slots from enum position i on
RECURSIVE ring_slots_from(_, _, _)
ring_slots_from(species, missing, i) ==
    IF i > EQ_LAST_JEWELLERY THEN <<>>
    ELSE LET eq == EquipOrder[i] IN
         IF /\ eq # "EQ_AMULET"
            /\ eq # "EQ_RING_AMULET"
            /\ eq # missing
            /\ ~species_bans_eq(species, eq)
         THEN <<eq>> \o ring_slots_from(species, missing, i + 1)
         ELSE ring_slots_from(species, missing, i + 1)

species_ring_slots(species, missing_hand) ==
    LET missing == IF missing_hand THEN species_sacrificial_arm(species)
                   ELSE "EQ_NONE"
    IN ring_slots_from(species, missing, EQ_FIRST_JEWELLERY)

(***************************************************************************)
(* Mutation-schedule query.                                                *)
(***************************************************************************)
\* the loop of species_mutation_level from entry k on, with the running total
RECURSIVE mutation_level_from(_, _, _, _, _)
mutation_level_from(lums, mut, mut_level, k, total) ==
    IF k > Len(lums) THEN 0
    ELSE IF mut = lums[k].mut
         THEN LET t == total + lums[k].mut_level IN
              IF t >= mut_level THEN lums[k].xp_level
              ELSE mutation_level_from(lums, mut, mut_level, k + 1, t)
         ELSE mutation_level_from(lums, mut, mut_level, k + 1, total)

\* species_mutation_level comparing each entry's own level, not the total
RECURSIVE mutation_level_no_total(_, _, _, _)
mutation_level_no_total(lums, mut, mut_level, k) ==
    IF k > Len(lums) THEN 0
    ELSE IF mut = lums[k].mut /\ lums[k].mut_level >= mut_level
         THEN lums[k].xp_level
         ELSE mutation_level_no_total(lums, mut, mut_level, k + 1)

species_mutation_level_no_total(species, mut, mut_level) ==
    mutation_level_no_total(get_species_def(species).level_up_mutations,
                            mut, mut_level, 1)

species_mutation_level(species, mut, mut_level) ==
    mutation_level_from(get_species_def(species).level_up_mutations,
                        mut, mut_level, 1, 0)


(***************************************************************************)
(* Skill aptitudes (skills.cc).  species_apt_factor(sk, sp) is             *)
(* 1 / 2^(apt / APT_DOUBLE); the stand-in table keeps to aptitudes that    *)
(* are multiples of APT_DOUBLE, whose factors are exact in a float, and a  *)
(* factor is held as the fraction <<numerator, denominator>>.              *)
(***************************************************************************)
APT_DOUBLE == 4

species_apt(sk, species) ==
    CASE species = "SP_TROLL" /\ sk = "SK_FIGHTING" -> 0 - APT_DOUBLE
      [] species = "SP_TROLL" /\ sk = "SK_SPELLCASTING" -> APT_DOUBLE
      [] species = "SP_FELID" /\ sk = "SK_SPELLCASTING" -> 0 - APT_DOUBLE
      [] species = "SP_OCTOPODE" /\ sk = "SK_FIGHTING" -> APT_DOUBLE
      [] species = "SP_DEMONSPAWN" /\ sk = "SK_FIGHTING" -> APT_DOUBLE
      [] species = "SP_DEMONSPAWN" /\ sk = "SK_SPELLCASTING" -> 0 - APT_DOUBLE
      [] OTHER -> 0

apt_to_factor(apt) ==
    CASE apt = 0 - APT_DOUBLE -> <<2, 1>>
      [] apt = 0 -> <<1, 1>>
      [] apt = APT_DOUBLE -> <<1, 2>>

species_apt_factor(sk, species) == apt_to_factor(species_apt(sk, species))

\* points needed for the top skill level: the base cost times the factor
skill_exp_needed_max(sk, species) ==
    LET f == species_apt_factor(sk, species) IN (MaxPoints * f[1]) \div f[2]

(***************************************************************************)
(* Arithmetic of the field types.                                          *)
(***************************************************************************)
\* uint8_t, the element type of you.mutation, you.innate_mutation, prev_muts
U8(x) == x % 256

\* unsigned int *= float / float: the quotient of the two factors is formed
\* first, the product is truncated towards zero
scale_points(points, fnew, fold) ==
    (points * (fnew[1] * fold[2])) \div (fnew[2] * fold[1])

(***************************************************************************)
(* Mutations (mutation.cc).                                                *)
(***************************************************************************)
get_mutation_cap(mut) == 3

has_innate_mutation(y, mut) == y.innate_mutation[mut] > 0

\* perma_mutate: up to min(how_much, cap) innate levels; a level beyond the
\* cap of the total turns an acquired level into an innate one
RECURSIVE perma_mutate(_, _, _)
perma_mutate(y, mut, how_much) ==
    LET cap == get_mutation_cap(mut)
        n == IF how_much < cap THEN how_much ELSE cap
    IN IF n <= 0 THEN y
       ELSE LET y1 ==
                  IF y.innate_mutation[mut] >= cap THEN y
                  ELSE [y EXCEPT
                          !.mutation[mut] = IF @ < cap THEN U8(@ + 1) ELSE @,
                          !.innate_mutation[mut] = U8(@ + 1)]
            IN perma_mutate(y1, mut, n - 1)

\* one grant of the schedule: entry k, by give_basic_mutations ("basic") or
\* by give_level_mutations ("level")
Grant(k, by) == [entry |-> k, by |-> by]

\* w is the player together with the log of grants made during the call
RECURSIVE give_basic_from(_, _, _)
give_basic_from(w, species, k) ==
    LET lums == get_species_def(species).level_up_mutations IN
    IF k > Len(lums) THEN w
    ELSE IF lums[k].xp_level = 1
         THEN give_basic_from(
                [you |-> [w.you EXCEPT
                            !.mutation[lums[k].mut] = lums[k].mut_level,
                            !.innate_mutation[lums[k].mut] = lums[k].mut_level],
                 granted |-> Append(w.granted, Grant(k, "basic"))],
                species, k + 1)
         ELSE give_basic_from(w, species, k + 1)

give_basic_mutations(w, species) == give_basic_from(w, species, 1)

RECURSIVE give_level_from(_, _, _, _)
give_level_from(w, species, xp_level, k) ==
    LET lums == get_species_def(species).level_up_mutations IN
    IF k > Len(lums) THEN w
    ELSE IF lums[k].xp_level = xp_level
         THEN give_level_from(
                [you |-> perma_mutate(w.you, lums[k].mut, lums[k].mut_level),
                 granted |-> Append(w.granted, Grant(k, "level"))],
                species, xp_level, k + 1)
         ELSE give_level_from(w, species, xp_level, k + 1)

give_level_mutations(w, species, xp_level) ==
    give_level_from(w, species, xp_level, 1)

\* roll_demonspawn_mutations draws you.demonic_traits at random
Trait(mut, level_gained) == [mutation |-> mut, level_gained |-> level_gained]

DemonicTraitRolls ==
    { <<Trait("MUT_SHAGGY_FUR", 2)>>,
      <<Trait("MUT_HEAT_RESISTANCE", MaxXL + 1)>>,
      <<Trait("MUT_CLAWS", 2), Trait("MUT_CLAWS", 3)>> }

(***************************************************************************)
(* Equipment.                                                              *)
(***************************************************************************)
swap_equip(y, a, b) ==
    [y EXCEPT !.equip = [@ EXCEPT ![a] = y.equip[b], ![b] = y.equip[a]],
              !.melded = [@ EXCEPT ![a] = y.melded[b], ![b] = y.melded[a]]]

\* you_can_wear(eq) == MB_FALSE (player.cc), as far as the species decides it
you_cannot_wear(y, eq) == species_bans_eq(y.species, eq)


(***************************************************************************)
(* State.                                                                  *)
(***************************************************************************)
VARIABLES
    you,        \* the player: species, experience_level, mutation,
                \* innate_mutation, skill_points, equip, melded, demonic_traits
    pc,         \* position inside change_species_to, "idle" outside a call
    sp,         \* change_species_to's parameter
    old_sp,     \* change_species_to's local old_sp
    prev_muts,  \* change_species_to's local prev_muts
    i,          \* loop counter of the give_level_mutations loop
    pre,        \* the player as it was when the call in progress began
    granted,    \* the schedule entries granted during the call, in order
    q           \* the last query made of a pure function, with its result

vars == <<you, pc, sp, old_sp, prev_muts, i, pre, granted, q>>

NoQuery == [fn |-> "none"]

NoMuts == [m \in Mutations |-> 0]

\* the shape of the state: the fields of `you` that change_species_to reads
\* or writes, and its parameter, locals and position
TypeOK ==
    /\ you.species \in Species
    /\ you.experience_level \in 1..(MaxXL + 1)
    /\ you.mutation \in [Mutations -> 0..255]
    /\ you.innate_mutation \in [Mutations -> 0..255]
    /\ \A sk \in Skills : you.skill_points[sk] \in Nat
    /\ \A eq \in EquipSlots : you.equip[eq] \in -1..51 /\ you.melded[eq] \in BOOLEAN
    /\ pc \in {"idle", "rescale", "species", "remove", "basic", "levels",
               "override", "demonspawn", "swap", "unwear", "fixup"}
    /\ sp \in Species \cup {"SP_UNKNOWN"}
    /\ old_sp \in Species \cup {"SP_UNKNOWN"}
    /\ prev_muts \in [Mutations -> 0..255]
    /\ i \in 0..(MaxXL + 2)

(***************************************************************************)
(* Starting player states: a character of some species and level, as       *)
(* character creation and levelling leave it, with mutations acquired in   *)
(* play, skill points trained and equipment worn.                          *)
(***************************************************************************)
RECURSIVE level_ups(_, _, _, _)
level_ups(w, species, xl, top) ==
    IF xl > top THEN w
    ELSE level_ups(give_level_mutations(w, species, xl), species, xl + 1, top)

NewPlayer(species, xl) ==
    LET blank == [species |-> species,
                  experience_level |-> xl,
                  mutation |-> NoMuts,
                  innate_mutation |-> NoMuts,
                  skill_points |-> [sk \in Skills |-> 0],
                  equip |-> [eq \in EquipSlots |-> -1],
                  melded |-> [eq \in EquipSlots |-> FALSE],
                  demonic_traits |-> <<>>]
        w == give_basic_mutations([you |-> blank, granted |-> <<>>], species)
    IN level_ups(w, species, 2, xl).you

\* acquired[m] more levels of each mutation, up to the mutation's cap
WithAcquired(y, acquired) ==
    [y EXCEPT !.mutation =
       [m \in Mutations |->
          IF y.mutation[m] + acquired[m] > get_mutation_cap(m)
          THEN (IF y.mutation[m] > get_mutation_cap(m) THEN y.mutation[m]
                ELSE get_mutation_cap(m))
          ELSE y.mutation[m] + acquired[m]]]

\* the slots of `worn` filled with distinct inventory items, some melded
WithEquip(y, worn, melded) ==
    [y EXCEPT !.equip = [eq \in EquipSlots |->
                           IF eq \in worn
                           THEN Cardinality({e \in worn : EqIndex(e) < EqIndex(eq)})
                           ELSE -1],
              !.melded = [eq \in EquipSlots |-> eq \in melded]]

Wearable(species) == {eq \in EquipSlots : ~species_bans_eq(species, eq)}

InitLocals ==
    /\ pc = "idle"
    /\ sp = "SP_UNKNOWN"
    /\ old_sp = "SP_UNKNOWN"
    /\ prev_muts = NoMuts
    /\ i = 0
    /\ granted = <<>>
    /\ q = NoQuery

InitMutations ==
    \E s \in Species, xl \in 1..MaxXL, acquired \in [Mutations -> 0..MaxAcquired] :
        you = WithAcquired(NewPlayer(s, xl), acquired)

InitSkills ==
    \E s \in Species, pts \in [Skills -> 0..(2 * MaxPoints)] :
        /\ \A sk \in Skills : pts[sk] <= skill_exp_needed_max(sk, s)
        /\ you = [NewPlayer(s, 1) EXCEPT !.skill_points = pts]

\* the sets of at most MaxWorn slots the species can use
WornSets(species) ==
    {{pick[k] : k \in 1..MaxWorn} \ {"EQ_NONE"} :
       pick \in [1..MaxWorn -> Wearable(species) \cup {"EQ_NONE"}]}

InitEquip ==
    \E s \in Species :
      \E worn \in WornSets(s) :
        \E melded \in SUBSET worn : you = WithEquip(NewPlayer(s, 1), worn, melded)

Init ==
    /\ InitLocals
    /\ InitMutations \/ InitSkills \/ InitEquip
    /\ pre = you

(***************************************************************************)
(* change_species_to(sp), one action per statement group.                  *)
(***************************************************************************)
\* entry: ASSERT(sp != SP_UNKNOWN)
Call ==
    /\ pc = "idle"
    /\ \E s \in Species : sp' = s
    /\ pc' = "rescale"
    /\ UNCHANGED <<you, old_sp, prev_muts, i, pre, granted, q>>

\* the rescaling loop with the divisor read for the new species, as it would
\* be were you.species overwritten first
rescale_skill_points_after_overwrite(y, newsp) ==
    [y EXCEPT !.skill_points =
       [sk \in Skills |->
          scale_points(y.skill_points[sk],
                       species_apt_factor(sk, newsp),
                       species_apt_factor(sk, newsp))]]

\* the rescaling loop: the divisor is the factor of you.species, which is
\* still the old species here
rescale_skill_points(y, newsp) ==
    [y EXCEPT !.skill_points =
       [sk \in Skills |->
          scale_points(y.skill_points[sk],
                       species_apt_factor(sk, newsp),
                       species_apt_factor(sk, y.species))]]

RescaleSkills ==
    /\ pc = "rescale"
    /\ you' = rescale_skill_points(you, sp)
    /\ pc' = "species"
    /\ UNCHANGED <<sp, old_sp, prev_muts, i, pre, granted, q>>

SetSpecies ==
    /\ pc = "species"
    /\ old_sp' = you.species
    /\ you' = [you EXCEPT !.species = sp]
    /\ pc' = "remove"
    /\ UNCHANGED <<sp, prev_muts, i, pre, granted, q>>

\* remove all innate mutations, remembering what is left
remove_innate(y) ==
    [y EXCEPT
       !.mutation = [m \in Mutations |->
                       IF has_innate_mutation(y, m)
                       THEN U8(y.mutation[m] - y.innate_mutation[m])
                       ELSE y.mutation[m]],
       !.innate_mutation = [m \in Mutations |->
                              IF has_innate_mutation(y, m) THEN 0
                              ELSE y.innate_mutation[m]]]

RemoveInnate ==
    /\ pc = "remove"
    /\ you' = remove_innate(you)
    /\ prev_muts' = you'.mutation
    /\ pc' = "basic"
    /\ UNCHANGED <<sp, old_sp, i, pre, granted, q>>

GiveBasic ==
    /\ pc = "basic"
    /\ LET w == give_basic_mutations([you |-> you, granted |-> granted], sp)
       IN /\ you' = w.you
          /\ granted' = w.granted
    /\ i' = 2
    /\ pc' = "levels"
    /\ UNCHANGED <<sp, old_sp, prev_muts, pre, q>>

\* the loop condition with < for <=
level_loop_stops_early(y, n) == n < y.experience_level

\* one iteration of for (int i = 2; i <= you.experience_level; ++i)
level_loop_continues(y, n) == n <= y.experience_level

GiveLevel ==
    /\ pc = "levels"
    /\ IF level_loop_continues(you, i)
       THEN LET w == give_level_mutations([you |-> you, granted |-> granted], sp, i)
            IN /\ you' = w.you
               /\ granted' = w.granted
               /\ i' = i + 1
               /\ pc' = "levels"
       ELSE /\ pc' = "override"
            /\ UNCHANGED <<you, granted, i>>
    /\ UNCHANGED <<sp, old_sp, prev_muts, pre, q>>

\* the loop after the grants: previous non-innate levels override innate ones
override_innate(y, prev) ==
    [y EXCEPT !.innate_mutation =
       [m \in Mutations |->
          IF prev[m] > y.innate_mutation[m] THEN 0
          ELSE U8(y.innate_mutation[m] - prev[m])]]

OverrideInnate ==
    /\ pc = "override"
    /\ you' = override_innate(you, prev_muts)
    /\ pc' = "demonspawn"
    /\ UNCHANGED <<sp, old_sp, prev_muts, i, pre, granted, q>>

RECURSIVE apply_demonic_traits(_, _)
apply_demonic_traits(y, k) ==
    IF k > Len(y.demonic_traits) THEN y
    ELSE LET t == y.demonic_traits[k] IN
         IF t.level_gained > y.experience_level
         THEN apply_demonic_traits(y, k + 1)
         ELSE apply_demonic_traits(
                [y EXCEPT !.mutation[t.mutation] = U8(@ + 1),
                          !.innate_mutation[t.mutation] = U8(@ + 1)],
                k + 1)

Demonspawn ==
    /\ pc = "demonspawn"
    /\ IF sp = "SP_DEMONSPAWN"
       THEN \E roll \in DemonicTraitRolls :
              you' = apply_demonic_traits([you EXCEPT !.demonic_traits = roll], 1)
       ELSE you' = you
    /\ pc' = "swap"
    /\ UNCHANGED <<sp, old_sp, prev_muts, i, pre, granted, q>>

\* the swap made only on becoming an octopode, not on ceasing to be one
swap_rings_entering_only(y, old, new) ==
    IF new = "SP_OCTOPODE" /\ old # "SP_OCTOPODE"
    THEN swap_equip(swap_equip(y, "EQ_LEFT_RING", "EQ_RING_ONE"),
                    "EQ_RIGHT_RING", "EQ_RING_TWO")
    ELSE y

swap_rings(y, old, new) ==
    IF (old = "SP_OCTOPODE") # (new = "SP_OCTOPODE")
    THEN swap_equip(swap_equip(y, "EQ_LEFT_RING", "EQ_RING_ONE"),
                    "EQ_RIGHT_RING", "EQ_RING_TWO")
    ELSE y

SwapRings ==
    /\ pc = "swap"
    /\ you' = swap_rings(you, old_sp, sp)
    /\ pc' = "unwear"
    /\ UNCHANGED <<sp, old_sp, prev_muts, i, pre, granted, q>>

\* items in slots the new species cannot use fall away
unwear(y) ==
    [y EXCEPT
       !.equip = [eq \in EquipSlots |->
                    IF you_cannot_wear(y, eq) /\ y.equip[eq] # -1 THEN -1
                    ELSE y.equip[eq]],
       !.melded = [eq \in EquipSlots |->
                     IF you_cannot_wear(y, eq) /\ y.equip[eq] # -1 THEN FALSE
                     ELSE y.melded[eq]]]

Unwear ==
    /\ pc = "unwear"
    /\ you' = unwear(you)
    /\ pc' = "fixup"
    /\ UNCHANGED <<sp, old_sp, prev_muts, i, pre, granted, q>>

\* fixup_skills: no skill holds more points than its top level needs
fixup_skills(y) ==
    [y EXCEPT !.skill_points =
       [sk \in Skills |->
          IF y.skill_points[sk] > skill_exp_needed_max(sk, y.species)
          THEN skill_exp_needed_max(sk, y.species)
          ELSE y.skill_points[sk]]]

\* the tail of the function (fixup_skills, then recomputation and redraw);
\* the call returns and its parameter and locals go out of scope
Finish ==
    /\ pc = "fixup"
    /\ you' = fixup_skills(you)
    /\ pc' = "idle"
    /\ sp' = "SP_UNKNOWN"
    /\ old_sp' = "SP_UNKNOWN"
    /\ prev_muts' = NoMuts
    /\ i' = 0
    /\ pre' = you'
    /\ granted' = <<>>
    /\ UNCHANGED q

Next ==
    \/ Call
    \/ RescaleSkills
    \/ SetSpecies
    \/ RemoveInnate
    \/ GiveBasic
    \/ GiveLevel
    \/ OverrideInnate
    \/ Demonspawn
    \/ SwapRings
    \/ Unwear
    \/ Finish

Spec == Init /\ [][Next]_vars


(***************************************************************************)
(* The pure queries, applied to every input of the bounded sets: a second  *)
(* specification in which the player stands still and q records the call.  *)
(***************************************************************************)
InitQuery ==
    /\ InitLocals
    /\ you = NewPlayer("SP_HUMAN", 1)
    /\ pre = you

QueryBansEq ==
    /\ \E s \in Species, eq \in EquipTypes :
         q' = [fn |-> "species_bans_eq", species |-> s, eq |-> eq,
               result |-> species_bans_eq(s, eq)]
    /\ UNCHANGED <<you, pc, sp, old_sp, prev_muts, i, pre, granted>>

QueryRingSlots ==
    /\ \E s \in Species, missing_hand \in BOOLEAN :
         q' = [fn |-> "species_ring_slots", species |-> s,
               missing_hand |-> missing_hand,
               result |-> species_ring_slots(s, missing_hand)]
    /\ UNCHANGED <<you, pc, sp, old_sp, prev_muts, i, pre, granted>>

QueryMutationLevel ==
    /\ \E s \in Species, mut \in Mutations, mut_level \in 1..MaxMutLevel :
         q' = [fn |-> "species_mutation_level", species |-> s, mut |-> mut,
               mut_level |-> mut_level,
               result |-> species_mutation_level(s, mut, mut_level)]
    /\ UNCHANGED <<you, pc, sp, old_sp, prev_muts, i, pre, granted>>

NextQuery ==
    \/ QueryBansEq
    \/ QueryRingSlots
    \/ QueryMutationLevel

SpecQuery == InitQuery /\ [][NextQuery]_vars

(***************************************************************************)
(* Properties.                                                             *)
(***************************************************************************)
Acquired(y, m) == y.mutation[m] - y.innate_mutation[m]

\* C1: when change_species_to returns, every mutation's acquired level
\* (you.mutation[m] - you.innate_mutation[m]) is what it was when the call
\* began.
C1_AcquiredLevelsPreserved ==
    [][pc = "fixup" => \A m \in Mutations : Acquired(you', m) = Acquired(pre, m)]_vars

\* the skill points the claim expects: the points at the start of the call
\* times the new species' factor over the old species' factor, as stored in
\* the unsigned field
ExpectedPoints(sk) ==
    LET fnew == species_apt_factor(sk, sp)
        fold == species_apt_factor(sk, pre.species)
    IN (pre.skill_points[sk] * fnew[1] * fold[2]) \div (fnew[2] * fold[1])

AfterRescale == {"species", "remove", "basic", "levels", "override",
                 "demonspawn", "swap", "unwear", "fixup"}

\* C2: from the rescaling loop on, every skill holds the points it had when
\* the call began multiplied by species_apt_factor(sk, sp) over the factor of
\* the species the player had before the call.
C2_SkillPointsRescaled ==
    pc \in AfterRescale =>
        \A sk \in Skills : you.skill_points[sk] = ExpectedPoints(sk)

C2_Witness ==
    /\ pc = "fixup"
    /\ pre.species = "SP_TROLL"
    /\ sp = "SP_FELID"
    /\ pre.skill_points["SK_SPELLCASTING"] = 1
    /\ you.skill_points["SK_SPELLCASTING"] = 4
    /\ pre.skill_points["SK_FIGHTING"] = 3
    /\ you.skill_points["SK_FIGHTING"] = 1

\* the slot each slot trades places with in the octopode ring swap
SwapPartner(eq) ==
    CASE eq = "EQ_LEFT_RING" -> "EQ_RING_ONE"
      [] eq = "EQ_RING_ONE" -> "EQ_LEFT_RING"
      [] eq = "EQ_RIGHT_RING" -> "EQ_RING_TWO"
      [] eq = "EQ_RING_TWO" -> "EQ_RIGHT_RING"
      [] OTHER -> eq

\* C3: right after the swap step, the contents and melded flags of
\* (EQ_LEFT_RING, EQ_RING_ONE) and of (EQ_RIGHT_RING, EQ_RING_TWO) have traded
\* places exactly when one of the old and the new species is SP_OCTOPODE and
\* the other is not; otherwise every slot and flag is where it was.
C3_RingsSwappedIffOctopodeChanges ==
    pc = "unwear" =>
        IF (pre.species = "SP_OCTOPODE") # (sp = "SP_OCTOPODE")
        THEN \A eq \in EquipSlots :
               /\ you.equip[eq] = pre.equip[SwapPartner(eq)]
               /\ you.melded[eq] = pre.melded[SwapPartner(eq)]
        ELSE /\ you.equip = pre.equip
             /\ you.melded = pre.melded

C3_Witness ==
    /\ pc = "unwear"
    /\ pre.species = "SP_OCTOPODE"
    /\ sp = "SP_HUMAN"
    /\ pre.equip["EQ_RING_ONE"] # -1
    /\ pre.melded["EQ_RING_ONE"]
    /\ pre.equip["EQ_RING_TWO"] # -1
    /\ ~pre.melded["EQ_RING_TWO"]
    /\ you.equip["EQ_LEFT_RING"] = pre.equip["EQ_RING_ONE"]
    /\ you.equip["EQ_RIGHT_RING"] = pre.equip["EQ_RING_TWO"]
    /\ you.melded["EQ_LEFT_RING"]
    /\ you.equip["EQ_RING_ONE"] = -1

NumberedRings == {"EQ_RING_ONE", "EQ_RING_TWO", "EQ_RING_THREE", "EQ_RING_FOUR",
                  "EQ_RING_FIVE", "EQ_RING_SIX", "EQ_RING_SEVEN", "EQ_RING_EIGHT"}

HandRings == {"EQ_LEFT_RING", "EQ_RIGHT_RING"}

AmuletSlots == {"EQ_AMULET", "EQ_RING_AMULET"}

\* C4: species_bans_eq bans a 2-armed species from each of EQ_RING_ONE ..
\* EQ_RING_EIGHT and not from EQ_LEFT_RING or EQ_RIGHT_RING, bans the 8-armed
\* octopode from EQ_LEFT_RING and EQ_RIGHT_RING and from none of EQ_RING_ONE ..
\* EQ_RING_EIGHT, bans no species from EQ_AMULET or EQ_RING_AMULET, and so
\* leaves species_arm_count(species) ring slots unbanned.
C4_BansEqHandlesRingSlots ==
    q.fn = "species_bans_eq" =>
        LET octopode == q.species = "SP_OCTOPODE" IN
        /\ q.eq \in NumberedRings => (q.result <=> ~octopode)
        /\ q.eq \in HandRings => (q.result <=> octopode)
        /\ q.eq \in AmuletSlots => ~q.result
        /\ species_arm_count(q.species) = (IF octopode THEN 8 ELSE 2)
        /\ Cardinality({eq \in NumberedRings \cup HandRings :
                          ~species_bans_eq(q.species, eq)})
             = species_arm_count(q.species)

C4_Witness ==
    /\ q.fn = "species_bans_eq"
    /\ q.species = "SP_OCTOPODE"
    /\ q.eq = "EQ_RING_EIGHT"
    /\ ~q.result

Range(seq) == {seq[k] : k \in 1..Len(seq)}

\* the jewellery slots, in enum order, that are no amulet slot and that
\* species_bans_eq does not ban
UnbannedRings(species) ==
    LET Keep(eq) == eq \notin AmuletSlots /\ ~species_bans_eq(species, eq)
    IN SelectSeq(SubSeq(EquipOrder, EQ_FIRST_JEWELLERY, EQ_LAST_JEWELLERY), Keep)

\* C5: species_ring_slots(species, false) is exactly the jewellery slots that
\* are no amulet slot and are not banned by species_bans_eq; with missing_hand
\* the result is that list less exactly one slot, species_sacrificial_arm,
\* which is always in the list.
C5_RingSlots ==
    q.fn = "species_ring_slots" =>
        LET full == UnbannedRings(q.species)
            sac == species_sacrificial_arm(q.species)
            NotSac(eq) == eq # sac
        IN IF q.missing_hand
           THEN /\ sac \in Range(full)
                /\ q.result = SelectSeq(full, NotSac)
                /\ Len(q.result) = Len(full) - 1
           ELSE q.result = full

C5_Witness ==
    /\ q.fn = "species_ring_slots"
    /\ q.species = "SP_OCTOPODE"
    /\ q.missing_hand
    /\ Len(q.result) = 7
    /\ "EQ_RING_EIGHT" \notin Range(q.result)

\* levels of mut the schedule has granted by experience level xl
RECURSIVE GrantedBy(_, _, _, _)
GrantedBy(lums, mut, xl, k) ==
    IF k > Len(lums) THEN 0
    ELSE (IF lums[k].mut = mut /\ lums[k].xp_level <= xl
          THEN lums[k].mut_level ELSE 0)
         + GrantedBy(lums, mut, xl, k + 1)

\* the lowest experience level by which the schedule has granted mut_level
\* levels of mut, 0 if there is none
FirstLevelWith(species, mut, mut_level) ==
    LET lums == get_species_def(species).level_up_mutations
        reached == {lums[k].xp_level : k \in 1..Len(lums)}
        enough == {xl \in reached : GrantedBy(lums, mut, xl, 1) >= mut_level}
    IN IF enough = {} THEN 0
       ELSE CHOOSE xl \in enough : \A other \in enough : xl <= other

\* C6: species_mutation_level(species, mut, mut_level) is the lowest
\* experience level at which the levels of mut granted by the species'
\* schedule add up to at least mut_level, and 0 if they never do.
C6_MutationLevel ==
    q.fn = "species_mutation_level" =>
        q.result = FirstLevelWith(q.species, q.mut, q.mut_level)

C6_Witness ==
    /\ q.fn = "species_mutation_level"
    /\ q.species = "SP_FELID"
    /\ q.mut = "MUT_SHAGGY_FUR"
    /\ q.mut_level = 2
    /\ q.result = 2

AfterGrants == {"override", "demonspawn", "swap", "unwear", "fixup"}

\* how often entry k of the schedule was granted during the call
TimesGranted(k) == Cardinality({p \in 1..Len(granted) : granted[p].entry = k})

\* C7: once the grants are made, every level_up_mutations entry of sp with
\* 1 <= xp_level <= you.experience_level has been granted exactly once, the
\* level-1 entries by give_basic_mutations and the others by
\* give_level_mutations, in non-decreasing xp_level order, and no other entry
\* has been granted.
C7_ScheduleGrantedInOrder ==
    pc \in AfterGrants =>
        LET lums == get_species_def(sp).level_up_mutations IN
        /\ \A k \in 1..Len(lums) :
             TimesGranted(k) =
               (IF 1 <= lums[k].xp_level /\ lums[k].xp_level <= you.experience_level
                THEN 1 ELSE 0)
        /\ \A p \in 1..Len(granted) :
             /\ granted[p].entry \in 1..Len(lums)
             /\ granted[p].by = "basic" <=> lums[granted[p].entry].xp_level = 1
        /\ \A a, b \in 1..Len(granted) :
             a < b => lums[granted[a].entry].xp_level <= lums[granted[b].entry].xp_level

C7_Witness ==
    /\ pc = "fixup"
    /\ sp = "SP_FELID"
    /\ you.experience_level = 3
    /\ Len(granted) = 3
    /\ granted[3] = Grant(3, "level")

=============================================================================
